---- MODULE Spec2Model ----
(***************************************************************************)
(* A model of confluence-analytics-pipeline.py: the paginator, the per-item *)
(* enrichment and normalisation, the driver loop, and the snapshot store    *)
(* with its retention step.  Four specifications share the module; each     *)
(* drives one group of variables and leaves the others at their initial     *)
(* values:                                                                  *)
(*   SpecStore    get_week_info, write_to_csv, archive_old_snapshots        *)
(*   SpecPage     get_all_pages_in_space on one collection                  *)
(*   SpecMain     main: every space, every page, the record batch           *)
(*   SpecExtract  extract_required_data as a function of its arguments      *)
(***************************************************************************)
EXTENDS Integers, Sequences, FiniteSets, TLC

VARIABLES
    \* ---- snapshot store (the files under OUTPUT_FOLDER) ----
    today,                  \* datetime.now(), as a proleptic Gregorian ordinal
    MAX_SNAPSHOTS_TO_KEEP,  \* the configured maximum
    week_info,              \* what get_week_info returned to main
    data,                   \* the batch main hands to write_to_csv
    current_file,           \* confluence_data_current.csv
    history_file,           \* confluence_data_history.csv
    snapshots,              \* confluence_data_<week>.csv in the active folder
    archived,               \* the same names under archived_snapshots/
    folders,                \* whether the two folders exist
    pcS,                    \* main's position between the store's steps
    runs,                   \* runs started so far
    ledger,                 \* every row handed to write_to_csv, in run order
    before,                 \* the folders as archive_old_snapshots found them
    \* ---- the remote listing endpoint and one call of get_all_pages_in_space ----
    collection,             \* remote: space key -> number of current items
    space_key,              \* the call's argument
    start,                  \* the offset cursor
    all_pages,              \* the call's result so far
    pcP,                    \* "idle", "request", "returned" or "raised"
    requests,               \* GETs the call has issued
    offsets,                \* the start parameter of each GET
    list_failed,            \* the call met a non-success response
    \* ---- main ----
    space_idx,              \* position of the loop over SPACE_KEYS
    pages,                  \* what get_all_pages_in_space returned
    page_idx,               \* position of the loop over pages (enumerate's i, from 1)
    all_data,               \* the record batch
    pcM,                    \* "fetch", "paging", "items", "persist" or "aborted"
    raised_in,              \* the function whose exception ended main, or ""
    listed,                 \* every item a 200 response delivered, in order
    fail_at,                \* space key -> the request that failed (0: none)
    \* ---- one call of extract_required_data ----
    workflow_data,
    parameters_data,
    result,
    pcE

storeVars == <<today, MAX_SNAPSHOTS_TO_KEEP, week_info, data, current_file,
               history_file, snapshots, archived, folders, pcS, runs, ledger,
               before>>

pageVars == <<collection, space_key, start, all_pages, pcP, requests, offsets,
              list_failed, listed, fail_at>>

mainVars == <<space_idx, pages, page_idx, all_data, pcM, raised_in>>

extractVars == <<workflow_data, parameters_data, result, pcE>>

vars == <<storeVars, pageVars, mainVars, extractVars>>

(***************************************************************************)
(* Bounds of the model.                                                     *)
(***************************************************************************)
\* runs of main in one behaviour of the store
MaxRuns == 4
\* rows in one batch handed to write_to_csv
MaxBatch == 2
\* the largest configured MAX_SNAPSHOTS_TO_KEEP
MaxKeep == 2
\* the largest collection one call of get_all_pages_in_space lists
MaxItems == 250
\* items beyond the last full page of a collection main lists
MaxTail == 1
\* parameters in a flat document or on the submit transition
MaxParams == 1
\* entries of the select transition list
MaxSelect == 2

(***************************************************************************)
(* Configuration (lines 29-30).                                             *)
(***************************************************************************)
KEEP_HISTORY == TRUE
ARCHIVE_OLD_SNAPSHOTS == TRUE

(***************************************************************************)
(* The calendar, as datetime computes it.                                   *)
(***************************************************************************)
IsLeap(y) == (y % 4 = 0) /\ ((y % 100 # 0) \/ (y % 400 = 0))

DaysBeforeYear(y) ==
    LET p == y - 1 IN p * 365 + (p \div 4) - (p \div 100) + (p \div 400)

DaysInMonth(y, m) ==
    IF m = 2 THEN (IF IsLeap(y) THEN 29 ELSE 28)
    ELSE IF m \in {4, 6, 9, 11} THEN 30 ELSE 31

RECURSIVE DaysBeforeMonth(_, _)
DaysBeforeMonth(y, m) ==
    IF m = 1 THEN 0 ELSE DaysBeforeMonth(y, m - 1) + DaysInMonth(y, m - 1)

Ymd2Ord(y, m, d) == DaysBeforeYear(y) + DaysBeforeMonth(y, m) + d

Years == 2019..2026

YearOf(ord) ==
    CHOOSE y \in Years : DaysBeforeYear(y) < ord /\ ord <= DaysBeforeYear(y + 1)

\* date.weekday(): Monday is 0
Weekday(ord) == (ord + 6) % 7

IsoWeek1Monday(y) ==
    LET firstday == Ymd2Ord(y, 1, 1)
        firstweekday == (firstday + 6) % 7
        week1monday == firstday - firstweekday
    IN  IF firstweekday > 3 THEN week1monday + 7 ELSE week1monday

\* date.isocalendar(): <<ISO year, ISO week>>
IsoCalendar(ord) ==
    LET year == YearOf(ord)
        d0 == ord - IsoWeek1Monday(year)
    IN  IF d0 < 0
        THEN <<year - 1, ((ord - IsoWeek1Monday(year - 1)) \div 7) + 1>>
        ELSE IF (d0 \div 7) >= 52 /\ ord >= IsoWeek1Monday(year + 1)
             THEN <<year + 1, 1>>
             ELSE <<year, (d0 \div 7) + 1>>

(***************************************************************************)
(* Text, as sequences of character codes.                                   *)
(***************************************************************************)
RECURSIVE Str(_)
Str(n) == IF n < 10 THEN <<48 + n>> ELSE Str(n \div 10) \o <<48 + (n % 10)>>

\* format(n, "02d")
Fmt02d(n) == IF n < 10 THEN <<48>> \o Str(n) ELSE Str(n)

\* f"{year}-W{week_num:02d}"
Formatted(year, week_num) == Str(year) \o <<45, 87>> \o Fmt02d(week_num)

\* str.__lt__
RECURSIVE StrLess(_, _)
StrLess(a, b) ==
    IF b = <<>> THEN FALSE
    ELSE IF a = <<>> THEN TRUE
    ELSE IF Head(a) # Head(b) THEN Head(a) < Head(b)
    ELSE StrLess(Tail(a), Tail(b))

get_week_info(now) ==
    LET year == YearOf(now)
        week_num == IsoCalendar(now)[2]
        week_start == now - Weekday(now)
    IN  [year |-> year, week_num |-> week_num, week_start |-> week_start,
         week_end |-> week_start + 6, formatted |-> Formatted(year, week_num)]

(***************************************************************************)
(* Files.  A CSV file is its lines: the header line, then one line per row. *)
(* A folder maps the names in it to their files; a weekly snapshot's name   *)
(* is its week identifier (the text between "confluence_data_" and ".csv"). *)
(***************************************************************************)
NoFile == [exists |-> FALSE, lines |-> <<>>]

File(lines) == [exists |-> TRUE, lines |-> lines]

\* csv.DictWriter.writeheader over get_fieldnames()
Header == [kind |-> "header", run |-> 0, n |-> 0, extraction_date |-> 0]

\* one CanonicalRecord, as writerows writes it
Row(run, n, day) == [kind |-> "row", run |-> run, n |-> n, extraction_date |-> day]

Put(folder, name, lines) ==
    [f \in (DOMAIN folder) \cup {name} |-> IF f = name THEN lines ELSE folder[f]]

Remove(folder, name) == [f \in (DOMAIN folder) \ {name} |-> folder[f]]

\* sorted(Path(OUTPUT_FOLDER).glob("confluence_data_*-W*.csv"))
RECURSIVE Sorted(_)
Sorted(S) ==
    IF S = {} THEN <<>>
    ELSE LET least == CHOOSE a \in S : \A b \in S \ {a} : StrLess(a, b)
         IN  <<least>> \o Sorted(S \ {least})

\* seq[:stop], as Python slices
SliceTo(seq, stop) ==
    LET n == Len(seq)
        k == IF stop < 0 THEN (IF n + stop < 0 THEN 0 ELSE n + stop)
             ELSE (IF stop > n THEN n ELSE stop)
    IN  SubSeq(seq, 1, k)

\* snapshot_files[:-MAX_SNAPSHOTS_TO_KEEP]
FilesToArchive(snapshot_files, keep) == SliceTo(snapshot_files, 0 - keep)

\* shutil.move(file_path, archive_path): the file leaves the active folder and
\* replaces whatever archive_path named
RECURSIVE MoveAll(_, _)
MoveAll(fs, files_to_archive) ==
    IF files_to_archive = <<>> THEN fs
    ELSE LET f == Head(files_to_archive)
         IN  MoveAll([snapshots |-> Remove(fs.snapshots, f),
                      archived |-> Put(fs.archived, f, fs.snapshots[f])],
                     Tail(files_to_archive))

archive_old_snapshots(fs, keep) ==
    IF ~ARCHIVE_OLD_SNAPSHOTS THEN fs
    ELSE LET snapshot_files == Sorted(DOMAIN fs.snapshots)
         IN  IF Len(snapshot_files) > keep
             THEN MoveAll(fs, FilesToArchive(snapshot_files, keep))
             ELSE fs

\* the guard of line 402 dropped: an empty batch is written like any other
NoData_Dropped(batch) == FALSE

\* "if not data"
NoData(batch) == batch = <<>>

\* lines 414-417: open(current_file, 'w'), writeheader, writerows
WriteCurrent(batch) == File(<<Header>> \o batch)

\* the history_exists test of line 430 dropped: every run writes the header
AppendHistory_AlwaysHeader(hist, batch) == File(hist.lines \o <<Header>> \o batch)

\* lines 427-432: open(history_file, 'a'), the header only when the file is new
AppendHistory(hist, batch) ==
    IF hist.exists THEN File(hist.lines \o batch)
    ELSE File(<<Header>> \o batch)

(***************************************************************************)
(* The store's steps.  BeginRun stands for main up to its call of           *)
(* write_to_csv: the clock has moved on and the extraction has produced a   *)
(* batch.  WriteToCsv is write_to_csv up to line 434, and ArchiveStep its   *)
(* closing call of archive_old_snapshots.                                   *)
(***************************************************************************)
StartDays == {Ymd2Ord(2020, 12, 25), Ymd2Ord(2023, 6, 5), Ymd2Ord(2024, 12, 23)}

DayAdvances == {1, 7}

NeverArchived == [ran |-> FALSE, snapshots |-> <<>>, archived |-> <<>>]

StoreStart ==
    /\ today \in StartDays
    /\ MAX_SNAPSHOTS_TO_KEEP \in 0..MaxKeep
    /\ week_info = get_week_info(today)
    /\ data = <<>>
    /\ current_file = NoFile
    /\ history_file = NoFile
    /\ snapshots = <<>>
    /\ archived = <<>>
    /\ folders = [output |-> FALSE, archive |-> FALSE]
    /\ pcS = "idle"
    /\ runs = 0
    /\ ledger = <<>>
    /\ before = NeverArchived

BeginRun ==
    /\ pcS = "idle"
    /\ runs < MaxRuns
    /\ \E adv \in DayAdvances, n \in 0..MaxBatch :
          /\ today' = today + adv
          /\ week_info' = get_week_info(today + adv)
          /\ data' = [k \in 1..n |-> Row(runs + 1, k, today + adv)]
    /\ runs' = runs + 1
    /\ pcS' = "write"
    /\ UNCHANGED <<MAX_SNAPSHOTS_TO_KEEP, current_file, history_file, snapshots,
                   archived, folders, ledger, before>>
    /\ UNCHANGED <<pageVars, mainVars, extractVars>>

WriteNothing ==
    /\ pcS = "write"
    /\ NoData(data)
    /\ pcS' = "idle"
    /\ before' = NeverArchived
    /\ UNCHANGED <<today, MAX_SNAPSHOTS_TO_KEEP, week_info, data, current_file,
                   history_file, snapshots, archived, folders, runs, ledger>>
    /\ UNCHANGED <<pageVars, mainVars, extractVars>>

WriteToCsv ==
    /\ pcS = "write"
    /\ ~NoData(data)
    /\ folders' = [output |-> TRUE, archive |-> TRUE]
    /\ current_file' = WriteCurrent(data)
    /\ IF KEEP_HISTORY
       THEN /\ snapshots' = Put(snapshots, week_info.formatted, WriteCurrent(data).lines)
            /\ history_file' = AppendHistory(history_file, data)
       ELSE UNCHANGED <<snapshots, history_file>>
    /\ ledger' = ledger \o data
    /\ pcS' = "archive"
    /\ UNCHANGED <<today, MAX_SNAPSHOTS_TO_KEEP, week_info, data, archived, runs,
                   before>>
    /\ UNCHANGED <<pageVars, mainVars, extractVars>>

ArchiveStep ==
    /\ pcS = "archive"
    /\ LET fs == archive_old_snapshots([snapshots |-> snapshots, archived |-> archived],
                                       MAX_SNAPSHOTS_TO_KEEP)
       IN  /\ snapshots' = fs.snapshots
           /\ archived' = fs.archived
    /\ before' = [ran |-> TRUE, snapshots |-> snapshots, archived |-> archived]
    /\ pcS' = "idle"
    /\ UNCHANGED <<today, MAX_SNAPSHOTS_TO_KEEP, week_info, data, current_file,
                   history_file, folders, runs, ledger>>
    /\ UNCHANGED <<pageVars, mainVars, extractVars>>

StoreNext == BeginRun \/ WriteNothing \/ WriteToCsv \/ ArchiveStep

(***************************************************************************)
(* The remote content API.  An item is known by its space and its position  *)
(* in the space's listing.  What the remote answers for one item's lookups  *)
(* is a function of the item (LookupsOf), so that a run over a hundred      *)
(* items is one chain of states; only the transport errors that main does   *)
(* not catch are chosen step by step.                                       *)
(***************************************************************************)
SPACE_KEYS == <<"SPACE1", "SPACE2">>

BASE_URL == "https://confluence.company.com"

OWNER_PARAM_ID == "your_owner_param_id"

RELEVANCE_PARAM_ID == "your_relevance_param_id"

\* get_all_pages_in_space: limit
limit == 100

Some(v) == [has |-> TRUE, v |-> v]

None(v) == [has |-> FALSE, v |-> v]

Param(id, value) == [id |-> id, value |-> value]

\* a workflow status document: {} and None are the falsy ones
NoWorkflow ==
    [truthy |-> FALSE, workflowName |-> "", submit |-> None(<<>>), select |-> None(<<>>)]

\* a parameters document
NoParameters == [truthy |-> FALSE, workflowParameters |-> None(<<>>)]

FlatDoc(params) == [truthy |-> TRUE, workflowParameters |-> Some(params)]

\* one item of the listing, with the expansions the request asks for; the
\* optional parts vary with the position
RawItem(s, j) ==
    [id |-> <<s, j>>,
     title |-> <<"page", s, j>>,
     history |-> [createdDate |-> [date |-> <<2023, 5, 1 + (j % 3)>>, time |-> "T23:30:00.000Z"],
                  createdBy |-> IF j % 3 = 0 THEN None([displayName |-> None(""), username |-> None("")])
                                ELSE Some([displayName |-> IF j % 3 = 1 THEN Some("Alice") ELSE None(""),
                                           username |-> Some("alice")])],
     version |-> [when |-> [date |-> <<2024, 2, 1 + (j % 2)>>, time |-> "T08:00:00.000Z"],
                  number |-> 1 + (j % 2),
                  by |-> IF j % 2 = 0 THEN None([displayName |-> None(""), username |-> None("")])
                         ELSE Some([displayName |-> None(""), username |-> Some("bob")])],
     ancestors |-> IF j % 2 = 0 THEN None(0) ELSE Some(j % 3),
     labels |-> IF j % 3 = 0 THEN None(<<>>) ELSE Some(SubSeq(<<"kb", "draft">>, 1, j % 3))]

\* the item as get_all_pages_in_space returns it (line 87)
Tagged(item, key) == [item |-> item, space_key |-> key]

\* the remote's 200 answer to start/limit: the next limit items at most
ServerPage(s, from, lim) ==
    LET upto == IF from + lim < collection[s] THEN from + lim ELSE collection[s]
    IN  [j \in 1..(IF upto > from THEN upto - from ELSE 0) |-> RawItem(s, from + j)]

\* a body, by the four measures get_page_content_info takes of it
Body(words, chars, images, tables) ==
    [words |-> words, chars |-> chars, images |-> images, tables |-> tables]

StatusDoc(name, submit, select) ==
    [truthy |-> TRUE, workflowName |-> name, submit |-> submit, select |-> select]

\* the remote's answers to the five per-item lookups
LookupsOf(item) ==
    LET k == item.id[2] % 4
    IN  CASE k = 1 ->
               [child |-> [kind |-> "ok", size |-> Some(2)],
                body |-> [kind |-> "ok", content |-> Body(12, 80, 1, 1)],
                attachment |-> [kind |-> "ok", size |-> Some(3)],
                status |-> [kind |-> "ok",
                            doc |-> StatusDoc("Approval",
                                              Some(<<Param(OWNER_PARAM_ID, "Bob")>>), None(<<>>))],
                parameters |-> [kind |-> "ok",
                                doc |-> FlatDoc(<<Param(OWNER_PARAM_ID, "Alice"),
                                                  Param(RELEVANCE_PARAM_ID, "High")>>)]]
          [] k = 2 ->
               [child |-> [kind |-> "http", size |-> None(0)],
                body |-> [kind |-> "http", content |-> Body(0, 0, 0, 0)],
                attachment |-> [kind |-> "ok", size |-> Some(1)],
                status |-> [kind |-> "http", doc |-> NoWorkflow],
                parameters |-> [kind |-> "http", doc |-> NoParameters]]
          [] k = 3 ->
               [child |-> [kind |-> "raise", size |-> None(0)],
                body |-> [kind |-> "ok", content |-> Body(5, 30, 0, 0)],
                attachment |-> [kind |-> "raise", size |-> None(0)],
                status |-> [kind |-> "nocontent", doc |-> NoWorkflow],
                parameters |-> [kind |-> "nocontent", doc |-> NoParameters]]
          [] OTHER ->
               [child |-> [kind |-> "ok", size |-> None(0)],
                body |-> [kind |-> "ok", content |-> Body(7, 40, 2, 0)],
                attachment |-> [kind |-> "http", size |-> None(0)],
                status |-> [kind |-> "ok",
                            doc |-> StatusDoc("Review", None(<<>>),
                                              Some(<<Some(<<Param(OWNER_PARAM_ID, "Carol")>>)>>))],
                parameters |-> [kind |-> "nocontent", doc |-> NoParameters]]

(***************************************************************************)
(* get_all_pages_in_space, one request per step.                            *)
(***************************************************************************)
\* "<=" for "<" at line 91
LastPage_OffByOne(results) == Len(results) <= limit

\* line 91: a short page ends the collection
LastPage(results) == Len(results) < limit

\* the break at line 81 returning nothing ("return []") instead
KeptOnFailure_Dropped(retrieved) == <<>>

\* lines 78-81, 96: the break leaves all_pages as it is
KeptOnFailure(retrieved) == retrieved

ListOk ==
    /\ pcP = "request"
    /\ LET results == ServerPage(space_key, start, limit)
           tagged == [j \in 1..Len(results) |-> Tagged(results[j], space_key)]
       IN  /\ all_pages' = all_pages \o tagged
           /\ listed' = listed \o tagged
           /\ IF LastPage(results)
              THEN pcP' = "returned" /\ start' = start
              ELSE pcP' = "request" /\ start' = start + limit
    /\ requests' = requests + 1
    /\ offsets' = Append(offsets, start)
    /\ UNCHANGED <<collection, space_key, list_failed, fail_at>>
    /\ UNCHANGED <<storeVars, mainVars, extractVars>>

ListFail ==
    /\ pcP = "request"
    /\ all_pages' = KeptOnFailure(all_pages)
    /\ pcP' = "returned"
    /\ list_failed' = TRUE
    /\ fail_at' = [fail_at EXCEPT ![space_key] = requests + 1]
    /\ requests' = requests + 1
    /\ offsets' = Append(offsets, start)
    /\ UNCHANGED <<collection, space_key, start, listed>>
    /\ UNCHANGED <<storeVars, mainVars, extractVars>>

\* requests.get raises (line 76): nothing in get_all_pages_in_space catches it
ListRaise ==
    /\ pcP = "request"
    /\ pcP' = "raised"
    /\ requests' = requests + 1
    /\ offsets' = Append(offsets, start)
    /\ UNCHANGED <<collection, space_key, start, all_pages, list_failed, listed, fail_at>>
    /\ UNCHANGED <<storeVars, mainVars, extractVars>>

(***************************************************************************)
(* The per-item lookups.  A call either returns a value or raises.          *)
(***************************************************************************)
Returns(v) == [raised |-> FALSE, value |-> v]

Raises(v) == [raised |-> TRUE, value |-> v]

\* dict.get(key, default)
Get(opt, default) == IF opt.has THEN opt.v ELSE default

get_child_page_count(response) ==
    IF response.kind = "ok" THEN Get(response.size, 0) ELSE 0

ZeroContentInfo ==
    [word_count |-> 0, char_count |-> 0, attachment_count |-> 0,
     image_count |-> 0, table_count |-> 0]

get_page_content_info(response, attachment_response) ==
    IF response.kind = "ok"
    THEN IF attachment_response.kind = "raise"
         THEN ZeroContentInfo
         ELSE [word_count |-> response.content.words,
               char_count |-> response.content.chars,
               attachment_count |-> IF attachment_response.kind = "ok"
                                    THEN Get(attachment_response.size, 0) ELSE 0,
               image_count |-> response.content.images,
               table_count |-> response.content.tables]
    ELSE ZeroContentInfo

\* by_info.get("displayName", by_info.get("username", ""))
DisplayName(user) == Get(user.displayName, Get(user.username, ""))

get_simplified_user_activity(page) ==
    [edit_count |-> page.item.version.number,
     last_editor |-> IF page.item.version.by.has
                     THEN DisplayName(page.item.version.by.v) ELSE "",
     unique_contributors |-> 1]

get_comala_status(response) ==
    CASE response.kind = "raise" -> Raises(NoWorkflow)
      [] response.kind = "ok" -> Returns(response.doc)
      [] OTHER -> Returns(NoWorkflow)

get_comala_parameters(response) ==
    CASE response.kind = "raise" -> Raises(NoParameters)
      [] response.kind = "ok" -> Returns(response.doc)
      [] OTHER -> Returns(NoParameters)

(***************************************************************************)
(* extract_required_data.                                                   *)
(***************************************************************************)
\* lines 314-318 and 324-328: the last matching parameter sets the value
RECURSIVE ReadParams(_, _)
ReadParams(params, acc) ==
    IF params = <<>> THEN acc
    ELSE LET param == Head(params)
             next == IF param.id = OWNER_PARAM_ID
                     THEN [acc EXCEPT !.owner_value = param.value]
                     ELSE IF param.id = RELEVANCE_PARAM_ID
                          THEN [acc EXCEPT !.project_relevance = param.value]
                          ELSE acc
         IN  ReadParams(Tail(params), next)

\* lines 332-336: a value is set only while it is still empty
RECURSIVE ReadParamsIfEmpty(_, _)
ReadParamsIfEmpty(params, acc) ==
    IF params = <<>> THEN acc
    ELSE LET param == Head(params)
             next == IF param.id = OWNER_PARAM_ID /\ acc.owner_value = ""
                     THEN [acc EXCEPT !.owner_value = param.value]
                     ELSE IF param.id = RELEVANCE_PARAM_ID /\ acc.project_relevance = ""
                          THEN [acc EXCEPT !.project_relevance = param.value]
                          ELSE acc
         IN  ReadParamsIfEmpty(Tail(params), next)

\* lines 330-336
RECURSIVE ReadSelect(_, _)
ReadSelect(transitions, acc) ==
    IF transitions = <<>> THEN acc
    ELSE LET transition == Head(transitions)
             next == IF transition.has THEN ReadParamsIfEmpty(transition.v, acc) ELSE acc
         IN  ReadSelect(Tail(transitions), next)

NoWorkflowFields == [workflow_name |-> "", owner_value |-> "", project_relevance |-> ""]

\* lines 321-338: the fallback over the status document's transitions
FromTransitions(status, acc) ==
    LET submitted == IF status.submit.has THEN ReadParams(status.submit.v, acc) ELSE acc
    IN  IF submitted.owner_value = "" /\ status.select.has
        THEN ReadSelect(status.select.v, submitted)
        ELSE submitted

\* the return at line 319 missing: the transitions are read after the flat document
WorkflowFields_FallThrough(status, parameters) ==
    IF ~status.truthy THEN NoWorkflowFields
    ELSE LET named == [NoWorkflowFields EXCEPT !.workflow_name = status.workflowName]
         IN  IF parameters.truthy /\ parameters.workflowParameters.has
             THEN FromTransitions(status, ReadParams(parameters.workflowParameters.v, named))
             ELSE FromTransitions(status, named)

\* lines 306-338
WorkflowFields(status, parameters) ==
    IF ~status.truthy THEN NoWorkflowFields
    ELSE LET named == [NoWorkflowFields EXCEPT !.workflow_name = status.workflowName]
         IN  IF parameters.truthy /\ parameters.workflowParameters.has
             THEN ReadParams(parameters.workflowParameters.v, named)
             ELSE FromTransitions(status, named)

\* ", ".join(names)
RECURSIVE Join(_)
Join(names) ==
    IF names = <<>> THEN <<>>
    ELSE IF Len(names) = 1 THEN names
    ELSE <<Head(names), ", ">> \o Join(Tail(names))

\* datetime.fromisoformat(...).strftime("%Y-%m-%d")
DateOf(timestamp) == timestamp.date

extract_required_data(page, status, parameters, child_count, content_info, user_activity) ==
    LET wf == WorkflowFields(status, parameters)
    IN  [space_key |-> page.space_key,
         page_title |-> page.item.title,
         page_url |-> <<BASE_URL, "/pages/viewpage.action?pageId=", page.item.id>>,
         page_created |-> DateOf(page.item.history.createdDate),
         date_modified |-> DateOf(page.item.version.when),
         creator_name |-> IF page.item.history.createdBy.has
                          THEN DisplayName(page.item.history.createdBy.v) ELSE "",
         page_depth |-> Get(page.item.ancestors, 0),
         child_pages |-> child_count,
         workflow_name |-> wf.workflow_name,
         owner_value |-> wf.owner_value,
         project_relevance |-> wf.project_relevance,
         labels |-> Join(Get(page.item.labels, <<>>)),
         word_count |-> content_info.word_count,
         char_count |-> content_info.char_count,
         attachment_count |-> content_info.attachment_count,
         image_count |-> content_info.image_count,
         table_count |-> content_info.table_count,
         unique_contributors |-> user_activity.unique_contributors,
         edit_count |-> user_activity.edit_count,
         last_editor |-> user_activity.last_editor,
         extraction_date |-> today]

(***************************************************************************)
(* main: the loop over SPACE_KEYS and, inside it, the loop over the pages.  *)
(***************************************************************************)
\* only pages with a workflow are kept
AppendIfAny_WorkflowOnly(batch, page_data) ==
    IF page_data.workflow_name # "" THEN Append(batch, page_data) ELSE batch

\* lines 482-483: "if page_data: all_data.append(page_data)"
AppendIfAny(batch, page_data) ==
    IF DOMAIN page_data # {} THEN Append(batch, page_data) ELSE batch

TransportError(doc) == [kind |-> "raise", doc |-> doc]

\* line 452
CallPaginator ==
    /\ pcM = "fetch"
    /\ space_idx <= Len(SPACE_KEYS)
    /\ space_key' = SPACE_KEYS[space_idx]
    /\ start' = 0
    /\ all_pages' = <<>>
    /\ requests' = 0
    /\ offsets' = <<>>
    /\ list_failed' = FALSE
    /\ pcP' = "request"
    /\ pcM' = "paging"
    /\ UNCHANGED <<collection, listed, fail_at, space_idx, pages, page_idx, all_data,
                   raised_in>>
    /\ UNCHANGED <<storeVars, extractVars>>

\* lines 452-455: the call has returned
GotPages ==
    /\ pcM = "paging"
    /\ pcP = "returned"
    /\ pages' = all_pages
    /\ page_idx' = 1
    /\ pcM' = "items"
    /\ pcP' = "idle"
    /\ UNCHANGED <<collection, space_key, start, all_pages, requests, offsets,
                   list_failed, listed, fail_at, space_idx, all_data, raised_in>>
    /\ UNCHANGED <<storeVars, extractVars>>

\* the exception of line 76 leaves main
ListingAborts ==
    /\ pcM = "paging"
    /\ pcP = "raised"
    /\ pcM' = "aborted"
    /\ raised_in' = "get_all_pages_in_space"
    /\ UNCHANGED <<pageVars, space_idx, pages, page_idx, all_data>>
    /\ UNCHANGED <<storeVars, extractVars>>

\* lines 455-483, one page
ProcessPage ==
    /\ pcM = "items"
    /\ page_idx <= Len(pages)
    /\ \E down \in {"", "get_comala_status", "get_comala_parameters"} :
          LET page == pages[page_idx]
              remote == LookupsOf(page.item)
              child_count == get_child_page_count(remote.child)
              content_info == get_page_content_info(remote.body, remote.attachment)
              user_activity == get_simplified_user_activity(page)
              status == get_comala_status(IF down = "get_comala_status"
                                          THEN TransportError(NoWorkflow)
                                          ELSE remote.status)
              parameters == IF status.value.truthy
                            THEN get_comala_parameters(IF down = "get_comala_parameters"
                                                       THEN TransportError(NoParameters)
                                                       ELSE remote.parameters)
                            ELSE Returns(NoParameters)
          IN  IF status.raised \/ parameters.raised
              THEN /\ pcM' = "aborted"
                   /\ raised_in' = down
                   /\ UNCHANGED <<page_idx, all_data>>
              ELSE /\ all_data' = AppendIfAny(all_data,
                                     extract_required_data(page, status.value, parameters.value,
                                                           child_count, content_info,
                                                           user_activity))
                   /\ page_idx' = page_idx + 1
                   /\ UNCHANGED <<pcM, raised_in>>
    /\ UNCHANGED <<pageVars, space_idx, pages>>
    /\ UNCHANGED <<storeVars, extractVars>>

\* the loop over pages is through: the next space
NextSpace ==
    /\ pcM = "items"
    /\ page_idx > Len(pages)
    /\ space_idx' = space_idx + 1
    /\ pcM' = "fetch"
    /\ UNCHANGED <<pageVars, pages, page_idx, all_data, raised_in>>
    /\ UNCHANGED <<storeVars, extractVars>>

\* line 491: the batch goes to write_to_csv
HandOver ==
    /\ pcM = "fetch"
    /\ space_idx > Len(SPACE_KEYS)
    /\ pcM' = "persist"
    /\ UNCHANGED <<pageVars, space_idx, pages, page_idx, all_data, raised_in>>
    /\ UNCHANGED <<storeVars, extractVars>>

(***************************************************************************)
(* The specifications.                                                      *)
(***************************************************************************)
Spaces == {SPACE_KEYS[k] : k \in 1..Len(SPACE_KEYS)}

StoreAtRest ==
    /\ today = Ymd2Ord(2023, 6, 5)
    /\ MAX_SNAPSHOTS_TO_KEEP = 12
    /\ week_info = get_week_info(today)
    /\ data = <<>>
    /\ current_file = NoFile
    /\ history_file = NoFile
    /\ snapshots = <<>>
    /\ archived = <<>>
    /\ folders = [output |-> FALSE, archive |-> FALSE]
    /\ pcS = "idle"
    /\ runs = 0
    /\ ledger = <<>>
    /\ before = NeverArchived

PageAtRest ==
    /\ space_key = ""
    /\ start = 0
    /\ all_pages = <<>>
    /\ pcP = "idle"
    /\ requests = 0
    /\ offsets = <<>>
    /\ list_failed = FALSE
    /\ listed = <<>>
    /\ fail_at = [s \in Spaces |-> 0]

MainAtRest ==
    /\ space_idx = 1
    /\ pages = <<>>
    /\ page_idx = 1
    /\ all_data = <<>>
    /\ pcM = "idle"
    /\ raised_in = ""

ExtractAtRest ==
    /\ workflow_data = NoWorkflow
    /\ parameters_data = NoParameters
    /\ result = NoWorkflowFields
    /\ pcE = "idle"

\* ---- the store ----
StoreInit ==
    /\ StoreStart
    /\ collection = [s \in Spaces |-> 0]
    /\ PageAtRest
    /\ MainAtRest
    /\ ExtractAtRest

SpecStore == StoreInit /\ [][StoreNext]_vars

\* ---- one call of get_all_pages_in_space on the first space ----
PageInit ==
    /\ StoreAtRest
    /\ \E K \in 0..MaxItems :
          collection = [s \in Spaces |-> IF s = SPACE_KEYS[1] THEN K ELSE 0]
    /\ space_key = SPACE_KEYS[1]
    /\ start = 0
    /\ all_pages = <<>>
    /\ pcP = "request"
    /\ requests = 0
    /\ offsets = <<>>
    /\ list_failed = FALSE
    /\ listed = <<>>
    /\ fail_at = [s \in Spaces |-> 0]
    /\ MainAtRest
    /\ ExtractAtRest

PageNext == ListOk \/ ListFail \/ ListRaise

SpecPage == PageInit /\ [][PageNext]_vars

\* ---- main ----
Sizes == {0, MaxTail, limit + MaxTail}

MainInit ==
    /\ StoreAtRest
    /\ collection \in [Spaces -> Sizes]
    /\ PageAtRest
    /\ space_idx = 1
    /\ pages = <<>>
    /\ page_idx = 1
    /\ all_data = <<>>
    /\ pcM = "fetch"
    /\ raised_in = ""
    /\ ExtractAtRest

MainNext ==
    \/ ListOk
    \/ ListFail
    \/ ListRaise
    \/ CallPaginator
    \/ GotPages
    \/ ListingAborts
    \/ ProcessPage
    \/ NextSpace
    \/ HandOver

SpecMain == MainInit /\ [][MainNext]_vars

\* ---- extract_required_data over bounded workflow documents ----
Values == {"", "Alice", "Bob"}

ParamSet == {Param(id, v) : id \in {OWNER_PARAM_ID, RELEVANCE_PARAM_ID}, v \in Values}

SeqsUpTo(S, n) == UNION {[1..k -> S] : k \in 0..n}

\* parameter lists: every list of at most MaxParams parameters, and the lists
\* that carry both identifiers once
ParamLists ==
    SeqsUpTo(ParamSet, MaxParams) \cup
    {<<Param(OWNER_PARAM_ID, v), Param(RELEVANCE_PARAM_ID, w)>> : v \in Values, w \in Values}

OptOf(S) == {None(<<>>)} \cup {Some(x) : x \in S}

\* an entry of the select list: without a "parameters" key, or with one parameter
SelectEntries == {None(<<>>)} \cup {Some(<<p>>) : p \in ParamSet}

StatusDocs ==
    {NoWorkflow} \cup
    {StatusDoc("Approval", submit, select) :
        submit \in OptOf(ParamLists),
        select \in OptOf(SeqsUpTo(SelectEntries, MaxSelect))}

ParameterDocs ==
    {NoParameters, [truthy |-> TRUE, workflowParameters |-> None(<<>>)]} \cup
    {FlatDoc(params) : params \in ParamLists}

ThePage == Tagged(RawItem(SPACE_KEYS[1], 1), SPACE_KEYS[1])

ExtractInit ==
    /\ StoreAtRest
    /\ collection = [s \in Spaces |-> 0]
    /\ PageAtRest
    /\ MainAtRest
    /\ workflow_data \in StatusDocs
    /\ parameters_data \in ParameterDocs
    /\ result = NoWorkflowFields
    /\ pcE = "call"

Extract ==
    /\ pcE = "call"
    /\ LET page_data == extract_required_data(ThePage, workflow_data, parameters_data, 0,
                                              ZeroContentInfo,
                                              get_simplified_user_activity(ThePage))
       IN  result' = [workflow_name |-> page_data.workflow_name,
                      owner_value |-> page_data.owner_value,
                      project_relevance |-> page_data.project_relevance]
    /\ pcE' = "done"
    /\ UNCHANGED <<workflow_data, parameters_data>>
    /\ UNCHANGED <<storeVars, pageVars, mainVars>>

ExtractNext == Extract

SpecExtract == ExtractInit /\ [][ExtractNext]_vars

(***************************************************************************)
(* Claims about the snapshot store (SpecStore).                             *)
(***************************************************************************)
\* the day a weekly snapshot was written: the extraction_date of its rows
FileDay(lines) == lines[2].extraction_date

Moved == (DOMAIN before.snapshots) \ (DOMAIN snapshots)

\* C1: after archive_old_snapshots has run, whatever the configured maximum,
\* at most MAX_SNAPSHOTS_TO_KEEP weekly files remain in the active folder,
\* every file that left it is in the archive under its name with its content,
\* every file that stayed is unchanged, and every file the archive already
\* held is still there with its content.
C1_RetentionInvariant ==
    (pcS = "idle" /\ before.ran) =>
        /\ Cardinality(DOMAIN snapshots) <= MAX_SNAPSHOTS_TO_KEEP
        /\ DOMAIN snapshots \subseteq DOMAIN before.snapshots
        /\ \A f \in DOMAIN snapshots : snapshots[f] = before.snapshots[f]
        /\ \A f \in Moved : f \in DOMAIN archived /\ archived[f] = before.snapshots[f]
        /\ \A f \in DOMAIN before.archived :
              f \in DOMAIN archived /\ archived[f] = before.archived[f]

\* C2: with history retention enabled the history ledger, once it exists, is
\* one header line followed by the rows of every run in run order; it exists
\* exactly when some run has handed rows to write_to_csv.
C2_HistoryAppendOnly ==
    KEEP_HISTORY =>
        /\ history_file.exists <=> (ledger # <<>>)
        /\ history_file.exists => history_file.lines = <<Header>> \o ledger

\* C2 witness: the ledger holds the rows of two runs made in different weeks.
C2_Witness ==
    /\ pcS = "idle"
    /\ history_file.exists
    /\ \E i, j \in 1..Len(history_file.lines) :
          /\ i < j
          /\ history_file.lines[i].kind = "row"
          /\ history_file.lines[i].run < history_file.lines[j].run
          /\ get_week_info(history_file.lines[i].extraction_date).formatted
                # get_week_info(history_file.lines[j].extraction_date).formatted

\* C8: a run whose batch is empty writes nothing: the current snapshot, the
\* weekly snapshots, the history ledger, the archive and the folders are as
\* they were, and the run ends.
C8_EmptyBatchNoWrites ==
    [][(pcS = "write" /\ data = <<>>) =>
          /\ UNCHANGED <<current_file, history_file, snapshots, archived, folders>>
          /\ pcS' = "idle"]_vars

\* C8 witness: an empty run has ended after earlier runs left files behind.
C8_Witness ==
    /\ pcS = "idle"
    /\ runs >= 2
    /\ data = <<>>
    /\ current_file.exists
    /\ history_file.exists
    /\ archived # <<>>

\* C10: on increasing dates the week identifiers sort as the weeks occur in
\* time, the files archive_old_snapshots moves are older than every file it
\* leaves, and the week just written stays in the active folder.
C10_OldestWeeksArchived ==
    (pcS = "idle" /\ before.ran) =>
        /\ \A f, g \in DOMAIN before.snapshots :
              StrLess(f, g) => FileDay(before.snapshots[f]) < FileDay(before.snapshots[g])
        /\ \A a \in Moved : \A k \in DOMAIN snapshots :
              FileDay(before.snapshots[a]) < FileDay(snapshots[k])
        /\ (MAX_SNAPSHOTS_TO_KEEP >= 1) => week_info.formatted \in DOMAIN snapshots

(***************************************************************************)
(* Claims about get_all_pages_in_space (SpecPage).                          *)
(***************************************************************************)
\* the whole collection, as the remote lists it
AllItems(s) == [j \in 1..collection[s] |-> Tagged(RawItem(s, j), s)]

\* C3: while every response is a success, a collection of K items costs at
\* most K div limit + 1 requests, the offsets sent are 0, limit, 2*limit, ...,
\* a call still running has a request left to make, and the call returns
\* after exactly K div limit + 1 requests with the K items in listing order.
C3_PaginationTerminates ==
    (~list_failed /\ pcP # "raised") =>
        LET K == collection[space_key]
        IN  /\ requests <= (K \div limit) + 1
            /\ offsets = [j \in 1..requests |-> (j - 1) * limit]
            /\ start = (IF pcP = "returned" THEN requests - 1 ELSE requests) * limit
            /\ (pcP = "request") => requests <= K \div limit
            /\ (pcP = "returned") =>
                  /\ all_pages = AllItems(space_key)
                  /\ requests = (K \div limit) + 1

\* C3 witness: 250 items have come back after 3 requests.
C3_Witness ==
    /\ pcP = "returned"
    /\ ~list_failed
    /\ collection[space_key] = 2 * limit + (limit \div 2)
    /\ Len(all_pages) = 2 * limit + (limit \div 2)
    /\ requests = 3

(***************************************************************************)
(* Claims about main (SpecMain).                                            *)
(***************************************************************************)
SpaceIndex(s) == CHOOSE k \in 1..Len(SPACE_KEYS) : SPACE_KEYS[k] = s

\* how many items of space s its listing delivered: all of them, or the full
\* pages before the request that failed
Delivered(s) == IF fail_at[s] = 0 THEN collection[s] ELSE (fail_at[s] - 1) * limit

RecordsOf(s) ==
    LET OfSpace(r) == r.space_key = s IN SelectSeq(all_data, OfSpace)

\* C4: a non-success response ends the call without a further request and
\* with the earlier pages kept; and every space main is through with, whether
\* listed before or after a space whose listing failed, has one record for
\* each item delivered: all its items, or for the failed space the items of
\* the pages before the failure.
C4_ListingFailureIsLocal ==
    /\ list_failed =>
          /\ pcP # "request"
          /\ requests = fail_at[space_key]
          /\ all_pages = [j \in 1..((requests - 1) * limit) |->
                             Tagged(RawItem(space_key, j), space_key)]
    /\ \A k \in 1..Len(SPACE_KEYS) :
          (k < space_idx) =>
              LET s == SPACE_KEYS[k]
                  recs == RecordsOf(s)
              IN  /\ Len(recs) = Delivered(s)
                  /\ \A j \in 1..Len(recs) : recs[j].page_title = RawItem(s, j).title
    /\ (pcM = "persist") => space_idx = Len(SPACE_KEYS) + 1

\* C4 witness: the first space failed on its second page, its first page was
\* processed, and the second space was processed in full.
C4_Witness ==
    /\ pcM = "persist"
    /\ fail_at[SPACE_KEYS[1]] = 2
    /\ fail_at[SPACE_KEYS[2]] = 0
    /\ collection[SPACE_KEYS[2]] > limit
    /\ Len(RecordsOf(SPACE_KEYS[1])) = limit
    /\ Len(RecordsOf(SPACE_KEYS[2])) = collection[SPACE_KEYS[2]]

\* C5: no failure of one item's lookups ends the run: main is never left by
\* an exception of get_comala_status or get_comala_parameters, and every page
\* the loop has passed has its record.
C5_ItemFailuresAreContained ==
    /\ raised_in \notin {"get_comala_status", "get_comala_parameters"}
    /\ (pcM = "items") => Len(RecordsOf(space_key)) = page_idx - 1

\* C6: the batch handed to write_to_csv has one record for each item a 200
\* response delivered, in the same order: the spaces in the order of
\* SPACE_KEYS, the items of a space in listing order.
C6_BatchMatchesListing ==
    (pcM = "persist") =>
        /\ Len(all_data) = Len(listed)
        /\ \A j \in 1..Len(all_data) :
              /\ all_data[j].space_key = listed[j].space_key
              /\ all_data[j].page_url[3] = listed[j].item.id
        /\ \A j \in 1..(Len(all_data) - 1) :
              LET a == all_data[j]
                  b == all_data[j + 1]
              IN  \/ SpaceIndex(a.space_key) < SpaceIndex(b.space_key)
                  \/ /\ a.space_key = b.space_key
                     /\ a.page_url[3][2] < b.page_url[3][2]

\* C6 witness: a batch with the records of both spaces, one of them paged.
C6_Witness ==
    /\ pcM = "persist"
    /\ Len(RecordsOf(SPACE_KEYS[1])) > limit
    /\ Len(RecordsOf(SPACE_KEYS[2])) > 0
    /\ Len(all_data) = collection[SPACE_KEYS[1]] + collection[SPACE_KEYS[2]]

(***************************************************************************)
(* Claims about extract_required_data (SpecExtract).                        *)
(***************************************************************************)
HasFlatDocument == parameters_data.truthy /\ parameters_data.workflowParameters.has

\* the value a parameter list gives an identifier: that of the last parameter
\* carrying it, "" when none does
ValueIn(params, id) ==
    LET hits == {k \in 1..Len(params) : params[k].id = id}
    IN  IF hits = {} THEN ""
        ELSE params[CHOOSE k \in hits : \A h \in hits : h <= k].value

\* C7: with a workflow status and a flat parameters document, owner and
\* relevance are what the flat document says, whatever the transitions carry.
C7_FlatDocumentOnly ==
    (pcE = "done" /\ workflow_data.truthy /\ HasFlatDocument) =>
        /\ result.owner_value = ValueIn(parameters_data.workflowParameters.v, OWNER_PARAM_ID)
        /\ result.project_relevance =
              ValueIn(parameters_data.workflowParameters.v, RELEVANCE_PARAM_ID)

\* C7 witness: the flat document says Alice and has no relevance, the submit
\* transition says Bob and the select list carries a relevance; the result is
\* Alice and no relevance.
C7_Witness ==
    /\ pcE = "done"
    /\ workflow_data.truthy
    /\ parameters_data = FlatDoc(<<Param(OWNER_PARAM_ID, "Alice")>>)
    /\ workflow_data.submit = Some(<<Param(OWNER_PARAM_ID, "Bob")>>)
    /\ workflow_data.select = Some(<<Some(<<Param(RELEVANCE_PARAM_ID, "Bob")>>)>>)
    /\ result.owner_value = "Alice"
    /\ result.project_relevance = ""

\* the parameters of every entry of the select list, in order
RECURSIVE SelectParams(_)
SelectParams(entries) ==
    IF entries = <<>> THEN <<>>
    ELSE (IF Head(entries).has THEN Head(entries).v ELSE <<>>) \o SelectParams(Tail(entries))

\* the first non-empty value a parameter list gives an identifier
FirstValueIn(params, id) ==
    LET hits == {k \in 1..Len(params) : params[k].id = id /\ params[k].value # ""}
    IN  IF hits = {} THEN ""
        ELSE params[CHOOSE k \in hits : \A h \in hits : k <= h].value

\* what the transitions give an identifier: the submit transition's value,
\* and when it has none the first value on the select list
FromSubmitThenSelect(status, id) ==
    LET submitted == IF status.submit.has THEN ValueIn(status.submit.v, id) ELSE ""
    IN  IF submitted # "" THEN submitted
        ELSE IF status.select.has THEN FirstValueIn(SelectParams(status.select.v), id)
        ELSE ""

\* C9: without a flat parameters document, owner and relevance are resolved
\* each on its own: the submit transition's value if it has one, else the
\* first value on the select list; relevance too when owner came from submit.
C9_TransitionsFallback ==
    (pcE = "done" /\ workflow_data.truthy /\ ~HasFlatDocument) =>
        /\ result.owner_value = FromSubmitThenSelect(workflow_data, OWNER_PARAM_ID)
        /\ result.project_relevance = FromSubmitThenSelect(workflow_data, RELEVANCE_PARAM_ID)

====
